---- MODULE Spec2Model ----
(***************************************************************************)
(* Headless frame capture: ImageCopyDriver copies the render target into a *)
(* staging buffer, receive_image_from_buffer maps the buffer and sends its *)
(* bytes through a crossbeam channel, save_frame drains the channel in the *)
(* main world and saves the latest frame.                                  *)
(*                                                                         *)
(* Spec       : the producer (render world) and the consumer (main world)  *)
(*              as two interleaved step machines around the channel.       *)
(* SpecLayout : the byte layout of one frame, from the staging buffer to   *)
(*              the image handed to the save call, for a range of sizes.   *)
(***************************************************************************)
EXTENDS Integers, Sequences, FiniteSets, TLC

\* ------------------------------------------------------------------ bounds
MaxTicks == 3
MaxConsumerTicks == 3
MaxPreRoll == 2
MaxWidth == 256
MaxHeight == 2

\* --------------------------------------------------------------- constants
\* AppConfig of main()
ConfigWidth == 1920
ConfigHeight == 1080
\* wgpu::COPY_BYTES_PER_ROW_ALIGNMENT, the alignment of align_copy_bytes_per_row
COPY_BYTES_PER_ROW_ALIGNMENT == 256
\* TextureFormat::bevy_default() is Rgba8UnormSrgb: 4 bytes per pixel, 1x1 blocks
pixel_size == 4

VARIABLES
    \* main world
    state,          \* scene_controller.state
    single_image,   \* scene_controller.single_image
    pre_roll,       \* pre_roll_frames given to setup_render_target
    cpc,            \* position of save_frame: idle, drain_latest, drain_discard, check, panicked
    image_data,     \* save_frame's local image_data
    file_number,    \* save_frame's Local<u32>
    exits,          \* AppExit messages written
    receiver_alive, \* MainWorldReceiver not yet dropped
    \* shared
    channel,        \* crossbeam_channel::unbounded(): frames sent and not yet received
    enabled,        \* ImageCopier.enabled (Arc<AtomicBool>)
    \* render world
    ppc,            \* position of the render-world frame: idle, render_done, poll, recv, push, unmap, panicked
    buffer,         \* content of ImageCopier.buffer: number of the copy that last wrote it (0: never written)
    mapped,         \* the staging buffer is mapped for reading
    cb_pending,     \* map_async's callback is registered and has not run
    rdv,            \* the bounded(1) channel created for the current map
    \* history
    ptick,          \* render-world frames started
    copies,         \* copy_texture_to_buffer commands submitted
    maps,           \* map_async requests
    pushes,         \* sender.send calls
    fail,           \* what stopped the render world: none, map, poll
    quiet,          \* enabled has been false ever since a moment the render world was between frames
    cticks,         \* save_frame invocations in a Render state
    built_tick,     \* save_frame has run in BuildScene
    taken,          \* frames received by save_frame: [pidx, tick]
    saved,          \* images handed to img.save: [pidx, file, ok, tick]
    tick_start,     \* channel content when the running save_frame started
    tick_pushed,    \* a frame was sent since the running save_frame started
    push_since_drain, \* a frame was sent since a drain loop last saw the channel empty
    \* layout
    lpc, lw, lh, lbuf, lframe, lout

pipeVars == <<state, single_image, pre_roll, cpc, image_data, file_number, exits,
              receiver_alive, channel, enabled, ppc, buffer, mapped, cb_pending, rdv,
              ptick, copies, maps, pushes, fail, quiet, cticks, built_tick, taken, saved,
              tick_start, tick_pushed, push_since_drain>>
mainVars == <<state, single_image, pre_roll, cpc, image_data, file_number, exits,
              cticks, built_tick, taken, saved, tick_start>>
renderVars == <<ppc, buffer, mapped, cb_pending, rdv, ptick, copies, maps, pushes, fail>>
layoutVars == <<lpc, lw, lh, lbuf, lframe, lout>>
vars == <<pipeVars, layoutVars>>

\* ----------------------------------------------------------------- helpers
Last(s) == s[Len(s)]

\* SceneState
BuildScene == [tag |-> "BuildScene", n |-> 0]
Render(n) == [tag |-> "Render", n |-> n]

\* RenderDevice::align_copy_bytes_per_row: round up to the row alignment
align_copy_bytes_per_row(row_bytes) ==
    ((row_bytes + COPY_BYTES_PER_ROW_ALIGNMENT - 1) \div COPY_BYTES_PER_ROW_ALIGNMENT)
        * COPY_BYTES_PER_ROW_ALIGNMENT

\* ImageCopier::new: the row pitch the staging buffer is sized with
buffer_padded_bytes_per_row_Unscaled(w) == align_copy_bytes_per_row(w)
buffer_padded_bytes_per_row(w) == align_copy_bytes_per_row(w) * 4

\* ImageCopier::new: size of the staging buffer
buffer_size(w, h) == buffer_padded_bytes_per_row(w) * h

\* ImageCopyDriver::run: bytes_per_row of the copy command
copy_padded_bytes_per_row(w) == align_copy_bytes_per_row((w \div 1) * pixel_size)

\* save_frame: row_bytes and aligned_row_bytes
row_bytes(w) == w * pixel_size
aligned_row_bytes(w) == align_copy_bytes_per_row(row_bytes(w))

\* Vec::new()
EmptyData == [pidx |-> 0, src |-> 0, len |-> 0]
is_empty_Never(d) == FALSE
is_empty(d) == d.len = 0

\* the frame a send would carry: the whole staging buffer, buffer_slice.get_mapped_range().to_vec()
mapped_frame == [pidx |-> pushes + 1, src |-> buffer, len |-> buffer_size(ConfigWidth, ConfigHeight)]

\* ------------------------------------------------------------ render world
\* ImageCopyDriver::run: `if !image_copier.enabled() { continue; }`
run_skips_NoCheck(en) == FALSE
run_skips(en) == ~en

\* receive_image_from_buffer: `if !image_copier.enabled() { continue; }`
receive_skips(en) == ~en

\* map_async callback: `Err(err) => panic!(..)`
callback_panics_Ignored(res) == FALSE
callback_panics(res) == res = "Err"

\* crossbeam_channel::unbounded(): a send never waits for room
send_blocks_Bounded(ch) == Len(ch) >= 1
send_blocks(ch) == FALSE

\* sender.send(frame) on the unbounded FIFO channel
channel_after_send_Twice(ch, f) == Append(Append(ch, f), f)
channel_after_send(ch, f) == Append(ch, f)

\* receive_image_from_buffer: `let _ = sender.send(..)` drops the result, the
\* unmap follows whether the send succeeded or not
after_send_SkipOnError(send_ok) == IF send_ok THEN "unmap" ELSE "idle"
after_send(send_ok) == "unmap"

\* crossbeam_channel::bounded(1) of receive_image_from_buffer
rdv_capacity_Zero == 1 - 1
rdv_capacity == 1

\* r.recv(): returns once the callback's value is in the channel
recv_returns_Early(r) == TRUE
recv_returns(r) == r # <<>>

\* the consumer is inside one save_frame invocation
InTick == cpc \in {"drain_latest", "drain_discard", "check"}

\* ImageCopyDriver::run, one render graph execution with the one ImageCopier
\* that setup_render_target spawned
ImageCopyDriver_run ==
    /\ ppc = "idle"
    /\ state.tag = "Render"
    /\ ptick < MaxTicks
    /\ ptick' = ptick + 1
    /\ IF run_skips(enabled)
         THEN UNCHANGED <<copies, buffer>>
         ELSE /\ copies' = copies + 1
              /\ buffer' = copies + 1
    /\ ppc' = "render_done"
    /\ UNCHANGED <<mapped, cb_pending, rdv, maps, pushes, fail, quiet>>
    /\ UNCHANGED <<mainVars, receiver_alive, channel, enabled, tick_pushed, push_since_drain>>
    /\ UNCHANGED layoutVars

\* receive_image_from_buffer up to map_async: the enabled check, the fresh
\* bounded(1) channel and the map request
receive_map_async ==
    /\ ppc = "render_done"
    /\ IF receive_skips(enabled)
         THEN /\ ppc' = "idle"
              /\ quiet' = TRUE
              /\ UNCHANGED <<rdv, cb_pending, maps>>
         ELSE /\ rdv' = <<>>
              /\ cb_pending' = TRUE
              /\ maps' = maps + 1
              /\ ppc' = "poll"
              /\ UNCHANGED quiet
    /\ UNCHANGED <<buffer, mapped, ptick, copies, pushes, fail>>
    /\ UNCHANGED <<mainVars, receiver_alive, channel, enabled, tick_pushed, push_since_drain>>
    /\ UNCHANGED layoutVars

\* the closure given to map_async, run by the device once the map completed or failed
map_callback ==
    /\ cb_pending
    /\ ppc \in {"poll", "recv"}
    /\ \E res \in {"Ok", "Err"} :
         /\ cb_pending' = FALSE
         /\ fail' = IF res = "Err" THEN "map" ELSE fail
         /\ IF callback_panics(res)
              THEN /\ ppc' = "panicked"
                   /\ UNCHANGED <<rdv, mapped>>
              ELSE /\ Len(rdv) < rdv_capacity
                   /\ rdv' = Append(rdv, res)
                   /\ mapped' = (res = "Ok")
                   /\ UNCHANGED ppc
    /\ UNCHANGED <<buffer, ptick, copies, maps, pushes, quiet>>
    /\ UNCHANGED <<mainVars, receiver_alive, channel, enabled, tick_pushed, push_since_drain>>
    /\ UNCHANGED layoutVars

\* render_device.poll(PollType::wait_indefinitely()).expect(..)
device_poll ==
    /\ ppc = "poll"
    /\ \E ok \in BOOLEAN :
         IF ok THEN /\ ppc' = "recv"
                    /\ UNCHANGED fail
               ELSE /\ ppc' = "panicked"
                    /\ fail' = "poll"
    /\ UNCHANGED <<buffer, mapped, cb_pending, rdv, ptick, copies, maps, pushes, quiet>>
    /\ UNCHANGED <<mainVars, receiver_alive, channel, enabled, tick_pushed, push_since_drain>>
    /\ UNCHANGED layoutVars

\* r.recv().expect(..): blocks until the callback has sent
rendezvous_recv ==
    /\ ppc = "recv"
    /\ recv_returns(rdv)
    /\ rdv' = SubSeq(rdv, 2, Len(rdv))
    /\ ppc' = "push"
    /\ UNCHANGED <<buffer, mapped, cb_pending, ptick, copies, maps, pushes, fail, quiet>>
    /\ UNCHANGED <<mainVars, receiver_alive, channel, enabled, tick_pushed, push_since_drain>>
    /\ UNCHANGED layoutVars

\* `let _ = sender.send(buffer_slice.get_mapped_range().to_vec());`
\* get_mapped_range panics on a buffer that is not mapped; a send to a dropped
\* receiver returns an error that is ignored
send_frame ==
    /\ ppc = "push"
    /\ IF ~mapped
         THEN /\ ppc' = "panicked"
              /\ fail' = "range"
              /\ UNCHANGED <<pushes, channel, tick_pushed, push_since_drain>>
         ELSE /\ ~send_blocks(channel)
              /\ pushes' = pushes + 1
              /\ ppc' = after_send(receiver_alive)
              /\ UNCHANGED fail
              /\ IF receiver_alive
                   THEN /\ channel' = channel_after_send(channel, mapped_frame)
                        /\ tick_pushed' = InTick
                        /\ push_since_drain' = TRUE
                   ELSE UNCHANGED <<channel, tick_pushed, push_since_drain>>
    /\ UNCHANGED <<buffer, mapped, cb_pending, rdv, ptick, copies, maps, quiet>>
    /\ UNCHANGED <<mainVars, receiver_alive, enabled>>
    /\ UNCHANGED layoutVars

\* image_copier.buffer.unmap(), the end of receive_image_from_buffer
buffer_unmap ==
    /\ ppc = "unmap"
    /\ mapped' = FALSE
    /\ ppc' = "idle"
    /\ quiet' = ~enabled
    /\ UNCHANGED <<buffer, cb_pending, rdv, ptick, copies, maps, pushes, fail>>
    /\ UNCHANGED <<mainVars, receiver_alive, channel, enabled, tick_pushed, push_since_drain>>
    /\ UNCHANGED layoutVars

\* a store to the shared AtomicBool of ImageCopier by a holder of the Arc
store_enabled ==
    /\ \E b \in BOOLEAN :
         /\ b # enabled
         /\ enabled' = b
         /\ quiet' = IF b THEN FALSE ELSE ppc = "idle"
    /\ UNCHANGED <<ppc, buffer, mapped, cb_pending, rdv, ptick, copies, maps, pushes, fail>>
    /\ UNCHANGED <<mainVars, receiver_alive, channel, tick_pushed, push_since_drain>>
    /\ UNCHANGED layoutVars

\* -------------------------------------------------------------- main world
\* save_frame: `if n < 1` selects the saving branch
accepts_frames_OffByOne(n) == n < 2
accepts_frames_Negative(n) == n < 0
accepts_frames(n) == n < 1

\* save_frame: `image_data = data;` in the try_recv loop
drain_keep_First(old, data) == IF is_empty(old) THEN data ELSE old
drain_keep(old, data) == data

\* save_frame: `if scene_controller.single_image { app_exit_writer.write(..) }`
\* sits inside `if !image_data.is_empty()`
exit_written_Unguarded(d, single) == single
exit_written_Always(d, single) == ~is_empty(d)
exit_written(d, single) == ~is_empty(d) /\ single

\* save_frame: `if let Err(e) = img.save(image_path) { panic!(..) }`
save_panics_Logged(ok) == FALSE
save_panics(ok) == ~ok

\* save_frame: `*file_number.deref_mut() += 1;` on the Local<u32>, before img.save
next_file_number_Reused(n) == n
next_file_number(n) == n + 1

\* save_frame: number of bytes written to img_bytes.data for a frame of len bytes,
\* the clone_from branch and the chunks/take/flat_map branch
stripped_len(len, w, h) ==
    IF row_bytes(w) = aligned_row_bytes(w)
      THEN len
      ELSE LET full == len \div aligned_row_bytes(w)
               rest == len % aligned_row_bytes(w)
               whole == IF full < h THEN full ELSE h
               part == IF full < h /\ rest > 0
                         THEN (IF rest < row_bytes(w) THEN rest ELSE row_bytes(w))
                         ELSE 0
           IN  whole * row_bytes(w) + part

\* ScheduleRunnerPlugin::run_loop of main(): the loop runs updates until an AppExit was written
app_running == exits = 0

\* receiver.try_recv(): returns at once, Err(Empty) on an empty channel
try_recv_waits_Blocking(ch) == ch = <<>>
try_recv_waits(ch) == FALSE

\* Startup system setup -> ImageCopyPlugin::setup_render_target
setup_render_target ==
    /\ state = BuildScene
    /\ cpc = "idle"
    /\ state' = Render(pre_roll)
    /\ UNCHANGED <<single_image, pre_roll, cpc, image_data, file_number, exits,
                   cticks, built_tick, taken, saved, tick_start>>
    /\ UNCHANGED <<renderVars, quiet, receiver_alive, channel, enabled, tick_pushed, push_since_drain>>
    /\ UNCHANGED layoutVars

\* save_frame, entry: the match on scene_controller.state and `let mut image_data = Vec::new()`
save_frame_begin ==
    /\ cpc = "idle"
    /\ app_running
    /\ IF state.tag # "Render"
         THEN /\ built_tick' = TRUE
              /\ UNCHANGED <<cpc, image_data, cticks, tick_start, tick_pushed>>
         ELSE /\ cticks < MaxConsumerTicks
              /\ cticks' = cticks + 1
              /\ tick_start' = channel
              /\ tick_pushed' = FALSE
              /\ image_data' = EmptyData
              /\ cpc' = IF accepts_frames(state.n) THEN "drain_latest" ELSE "drain_discard"
              /\ UNCHANGED built_tick
    /\ UNCHANGED <<state, single_image, pre_roll, file_number, exits, taken, saved>>
    /\ UNCHANGED <<renderVars, quiet, receiver_alive, channel, enabled, push_since_drain>>
    /\ UNCHANGED layoutVars

\* save_frame, one evaluation of `while let Ok(data) = receiver.try_recv()`
try_recv_latest ==
    /\ cpc = "drain_latest"
    /\ ~try_recv_waits(channel)
    /\ IF channel # <<>>
         THEN /\ image_data' = drain_keep(image_data, Head(channel))
              /\ channel' = Tail(channel)
              /\ taken' = Append(taken, [pidx |-> Head(channel).pidx, tick |-> cticks])
              /\ UNCHANGED <<cpc, push_since_drain>>
         ELSE /\ cpc' = "check"
              /\ push_since_drain' = FALSE
              /\ UNCHANGED <<image_data, channel, taken>>
    /\ UNCHANGED <<state, single_image, pre_roll, file_number, exits, cticks, built_tick,
                   saved, tick_start, tick_pushed>>
    /\ UNCHANGED <<renderVars, quiet, receiver_alive, enabled>>
    /\ UNCHANGED layoutVars

\* save_frame from `if !image_data.is_empty()` to the end of the saving branch:
\* the strip, file_number, img.save and the AppExit
save_frame_finish ==
    /\ cpc = "check"
    /\ \E ok \in BOOLEAN :
         LET has == ~is_empty(image_data)
             dies == has /\ save_panics(ok)
         IN  /\ has \/ ok
             /\ saved' = IF has
                           THEN Append(saved, [pidx |-> image_data.pidx, file |-> file_number,
                                               ok |-> ok, tick |-> cticks,
                                               len |-> stripped_len(image_data.len, ConfigWidth, ConfigHeight)])
                           ELSE saved
             /\ file_number' = IF has THEN next_file_number(file_number) ELSE file_number
             /\ exits' = IF ~dies /\ exit_written(image_data, single_image) THEN exits + 1 ELSE exits
             /\ cpc' = IF dies THEN "panicked" ELSE "idle"
    /\ image_data' = EmptyData
    /\ tick_start' = <<>>
    /\ tick_pushed' = FALSE
    /\ UNCHANGED <<state, single_image, pre_roll, cticks, built_tick, taken>>
    /\ UNCHANGED <<renderVars, quiet, receiver_alive, channel, enabled, push_since_drain>>
    /\ UNCHANGED layoutVars

\* save_frame, pre-roll branch: one evaluation of `while receiver.try_recv().is_ok() {}`
\* and, once the channel is seen empty, `state = SceneState::Render(n - 1)`
try_recv_discard ==
    /\ cpc = "drain_discard"
    /\ ~try_recv_waits(channel)
    /\ IF channel # <<>>
         THEN /\ channel' = Tail(channel)
              /\ taken' = Append(taken, [pidx |-> Head(channel).pidx, tick |-> cticks])
              /\ UNCHANGED <<cpc, state, push_since_drain, tick_start, tick_pushed>>
         ELSE /\ state' = Render(state.n - 1)
              /\ cpc' = "idle"
              /\ push_since_drain' = FALSE
              /\ tick_start' = <<>>
              /\ tick_pushed' = FALSE
              /\ UNCHANGED <<channel, taken>>
    /\ UNCHANGED <<single_image, pre_roll, image_data, file_number, exits, cticks, built_tick, saved>>
    /\ UNCHANGED <<renderVars, quiet, receiver_alive, enabled>>
    /\ UNCHANGED layoutVars

\* the App is dropped after the runner returned or a system panicked: the main
\* world's MainWorldReceiver goes away while the render world may still be running
app_drop ==
    /\ receiver_alive
    /\ \/ exits > 0 /\ cpc = "idle"
       \/ cpc = "panicked"
    /\ receiver_alive' = FALSE
    /\ channel' = <<>>
    /\ UNCHANGED <<mainVars, renderVars, quiet, enabled, tick_pushed, push_since_drain>>
    /\ UNCHANGED layoutVars

\* ------------------------------------------------------------ specification
LayoutOff ==
    /\ lpc = "off" /\ lw = 0 /\ lh = 0
    /\ lbuf = <<>> /\ lframe = <<>> /\ lout = <<>>

\* SceneController::new, ImageCopyPlugin::build, ImageCopier::new
Init ==
    /\ state = BuildScene
    /\ single_image \in BOOLEAN
    /\ pre_roll \in 0..MaxPreRoll
    /\ cpc = "idle"
    /\ image_data = EmptyData
    /\ file_number = 0
    /\ exits = 0
    /\ receiver_alive = TRUE
    /\ channel = <<>>
    /\ enabled = TRUE
    /\ ppc = "idle"
    /\ buffer = 0
    /\ mapped = FALSE
    /\ cb_pending = FALSE
    /\ rdv = <<>>
    /\ ptick = 0 /\ copies = 0 /\ maps = 0 /\ pushes = 0
    /\ fail = "none"
    /\ quiet = FALSE
    /\ cticks = 0
    /\ built_tick = FALSE
    /\ taken = <<>>
    /\ saved = <<>>
    /\ tick_start = <<>>
    /\ tick_pushed = FALSE
    /\ push_since_drain = FALSE
    /\ LayoutOff

Next ==
    \/ setup_render_target
    \/ ImageCopyDriver_run
    \/ receive_map_async
    \/ map_callback
    \/ device_poll
    \/ rendezvous_recv
    \/ send_frame
    \/ buffer_unmap
    \/ store_enabled
    \/ save_frame_begin
    \/ try_recv_latest
    \/ save_frame_finish
    \/ try_recv_discard
    \/ app_drop

Spec == Init /\ [][Next]_vars

\* ------------------------------------------------------------ frame layout
\* the tightly packed w x h image the render target holds: byte k has value k
tight_image(w, h) == [k \in 1..(row_bytes(w) * h) |-> k]

\* render_device.create_buffer: size bytes, zero-initialised
create_buffer(size) == [i \in 1..size |-> 0]

\* the device executing copy_texture_to_buffer: row r of the texture goes to
\* offset r * bytes_per_row, bytes outside the written rows keep their value
copy_texture_to_buffer(buf, w, h) ==
    [i \in 1..Len(buf) |->
        LET r == (i - 1) \div copy_padded_bytes_per_row(w)
            c == (i - 1) % copy_padded_bytes_per_row(w)
        IN  IF r < h /\ c < row_bytes(w)
              THEN tight_image(w, h)[r * row_bytes(w) + c + 1]
              ELSE buf[i]]

save_strip_NoTake(data, w, h) ==
    IF row_bytes(w) = aligned_row_bytes(w)
      THEN data
      ELSE [k \in 1..((Len(data) \div aligned_row_bytes(w)) * row_bytes(w)) |->
               data[((k - 1) \div row_bytes(w)) * aligned_row_bytes(w)
                    + ((k - 1) % row_bytes(w)) + 1]]

\* save_frame: the bytes written to img_bytes.data, clone_from when the row is
\* aligned, else chunks(aligned_row_bytes).take(height).flat_map(&row[..row_bytes.min(row.len())])
save_strip(data, w, h) ==
    IF row_bytes(w) = aligned_row_bytes(w)
      THEN data
      ELSE [k \in 1..stripped_len(Len(data), w, h) |->
               data[((k - 1) \div row_bytes(w)) * aligned_row_bytes(w)
                    + ((k - 1) % row_bytes(w)) + 1]]

PipeOff ==
    /\ state = BuildScene /\ single_image = TRUE /\ pre_roll = 0
    /\ cpc = "idle" /\ image_data = EmptyData /\ file_number = 0 /\ exits = 0
    /\ receiver_alive = TRUE /\ channel = <<>> /\ enabled = TRUE
    /\ ppc = "idle" /\ buffer = 0 /\ mapped = FALSE /\ cb_pending = FALSE /\ rdv = <<>>
    /\ ptick = 0 /\ copies = 0 /\ maps = 0 /\ pushes = 0 /\ fail = "none" /\ quiet = FALSE
    /\ cticks = 0 /\ built_tick = FALSE /\ taken = <<>> /\ saved = <<>>
    /\ tick_start = <<>> /\ tick_pushed = FALSE /\ push_since_drain = FALSE

\* ImageCopier::new for a w x h target
InitLayout ==
    /\ PipeOff
    /\ lpc = "new"
    /\ lw \in 1..MaxWidth
    /\ lh \in 1..MaxHeight
    /\ lbuf = create_buffer(buffer_size(lw, lh))
    /\ lframe = <<>>
    /\ lout = <<>>

\* ImageCopyDriver::run and the device executing the submitted copy
layout_copy ==
    /\ lpc = "new"
    /\ copy_padded_bytes_per_row(lw) * lh <= Len(lbuf)
    /\ lbuf' = copy_texture_to_buffer(lbuf, lw, lh)
    /\ lpc' = "copied"
    /\ UNCHANGED <<lw, lh, lframe, lout>>
    /\ UNCHANGED pipeVars

\* receive_image_from_buffer: buffer_slice.get_mapped_range().to_vec() of slice(..)
layout_send ==
    /\ lpc = "copied"
    /\ lframe' = lbuf
    /\ lpc' = "sent"
    /\ UNCHANGED <<lw, lh, lbuf, lout>>
    /\ UNCHANGED pipeVars

\* save_frame on the received frame
layout_strip ==
    /\ lpc = "sent"
    /\ ~(Len(lframe) = 0)
    /\ lout' = save_strip(lframe, lw, lh)
    /\ lpc' = "stripped"
    /\ UNCHANGED <<lw, lh, lbuf, lframe>>
    /\ UNCHANGED pipeVars

NextLayout ==
    \/ layout_copy
    \/ layout_send
    \/ layout_strip

SpecLayout == InitLayout /\ [][NextLayout]_vars

\* ------------------------------------------------------------------ claims
SavedIdx == {saved[i].pidx : i \in 1..Len(saved)}
TakenInTick(t) == {taken[i].pidx : i \in {j \in 1..Len(taken) : taken[j].tick = t}}

\* C1: latest frame wins. When a save_frame in Render(0) starts with frames
\* f1..fk pending and nothing is sent while it drains, the frame it holds after
\* the loop is fk, every f1..fk has been taken out, the channel is empty, and a
\* frame that was followed by another one in the same drain is never saved; a
\* drain that ends with no send since the previous drain ended holds no frame.
C1_DrainState ==
    /\ (cpc = "check" /\ ~tick_pushed /\ tick_start # <<>>) =>
          /\ image_data = Last(tick_start)
          /\ channel = <<>>
          /\ \A i \in 1..Len(tick_start) : tick_start[i].pidx \in TakenInTick(cticks)
    /\ \A i \in 1..Len(taken) : \A j \in 1..Len(taken) :
          (i < j /\ taken[i].tick = taken[j].tick) => taken[i].pidx \notin SavedIdx
C1_DrainStep ==
    (cpc = "drain_latest" /\ cpc' = "check" /\ ~push_since_drain) => is_empty(image_data')
C1_LatestFrameWins == []C1_DrainState /\ [][C1_DrainStep]_vars
C1_Witness ==
    /\ cpc = "check" /\ ~tick_pushed /\ Len(tick_start) >= 2
    /\ image_data = Last(tick_start)
    /\ state = Render(0)

\* C2: with single_image set, at most one image is ever handed to img.save, the
\* AppExit is written at most once, and it is written exactly when that save
\* succeeded: never without a save, never a second time.
C2_SingleImage ==
    single_image =>
        /\ Len(saved) <= 1
        /\ exits <= 1
        /\ exits = Cardinality({i \in 1..Len(saved) : saved[i].ok})
C2_Witness ==
    /\ single_image /\ exits = 1 /\ Len(saved) = 1
    /\ channel # <<>> /\ receiver_alive
    /\ cpc = "idle"

\* C3: pre-roll. From Render(pre_roll), after d completed save_frame invocations
\* the state is Render(max(pre_roll - d, 0)); every image saved was saved in
\* invocation pre_roll + 1 or later, and no frame taken out in the first
\* pre_roll invocations is ever saved.
C3_PreRoll ==
    state.tag = "Render" =>
        LET done == IF InTick THEN cticks - 1 ELSE cticks
        IN  /\ state.n = (IF pre_roll > done THEN pre_roll - done ELSE 0)
            /\ \A i \in 1..Len(saved) : saved[i].tick >= pre_roll + 1
            /\ \A i \in 1..Len(taken) :
                   taken[i].tick <= pre_roll => taken[i].pidx \notin SavedIdx
C3_Witness ==
    /\ pre_roll = 2 /\ state = Render(0) /\ cticks = pre_roll + 1
    /\ Len(saved) = 1 /\ cpc = "idle"
    /\ \E i \in 1..Len(taken) : taken[i].tick <= pre_roll

\* C4: while the enabled flag has been false since the render world was between
\* frames, no step submits a copy, requests a map, maps the buffer or sends a frame.
C4_DisabledStep ==
    (quiet /\ quiet') =>
        /\ copies' = copies
        /\ maps' = maps
        /\ pushes' = pushes
        /\ ~mapped'
        /\ ~cb_pending'
        /\ Len(channel') <= Len(channel)
C4_DisabledIsSilent == [][C4_DisabledStep]_vars
C4_Witness ==
    /\ quiet /\ ~enabled /\ ppc = "idle"
    /\ ptick >= 2 /\ copies = 0 /\ pushes = 0 /\ channel = <<>>

\* C5: no duplication, no reordering. The frames waiting in the channel, the
\* frames taken out and the frames saved are each in strictly increasing send
\* order, and a frame taken out is no longer in the channel.
C5_NoDupNoReorder ==
    /\ \A i \in 1..Len(taken) : \A j \in 1..Len(taken) :
          i < j => taken[i].pidx < taken[j].pidx
    /\ \A i \in 1..Len(saved) : \A j \in 1..Len(saved) :
          i < j => saved[i].pidx < saved[j].pidx
    /\ \A i \in 1..Len(channel) : \A j \in 1..Len(channel) :
          i < j => channel[i].pidx < channel[j].pidx
    /\ \A i \in 1..Len(channel) : \A j \in 1..Len(taken) :
          channel[i].pidx # taken[j].pidx
C5_Witness ==
    /\ Len(saved) >= 2 /\ Len(taken) >= 3
    /\ saved[2].pidx > saved[1].pidx + 1

\* C6: the send never waits for the consumer. Whenever the render world is at
\* the send with the buffer mapped, the send can be taken whatever the number
\* of pending frames, and taking it leads to the unmap with the frame appended
\* to the channel (while the receiver exists).
C6_SendEnabled == (ppc = "push" /\ mapped) => ENABLED send_frame
C6_SendStep ==
    (ppc = "push" /\ mapped /\ ppc' # "push") =>
        /\ ppc' = "unmap"
        /\ receiver_alive => channel' = Append(channel, mapped_frame)
C6_PushNeverWaits == []C6_SendEnabled /\ [][C6_SendStep]_vars
C6_Witness ==
    /\ ppc = "unmap" /\ Len(channel) >= 3
    /\ cticks = 0

\* C7: round trip. The image written by save_frame for the frame sent from the
\* staging buffer is the tightly packed image that was copied into the buffer.
C7_RoundTrip == lpc = "stripped" => lout = tight_image(lw, lh)

\* C8: with single_image not set, Render(0) is never left, an invocation of
\* save_frame hands an image to img.save iff it took at least one frame out,
\* and then exactly one, no two saves belong to the same invocation, and no
\* AppExit is written.
C8_ContinuousState ==
    ~single_image =>
        /\ exits = 0
        /\ \A i \in 1..Len(saved) : \A j \in 1..Len(saved) :
              i < j => saved[i].tick < saved[j].tick
        /\ cpc = "check" => (is_empty(image_data) <=> TakenInTick(cticks) = {})
C8_ContinuousStep ==
    ~single_image =>
        /\ state = Render(0) => state' = Render(0)
        /\ (cpc = "check" /\ cpc' # "check") =>
              Len(saved') = Len(saved) + (IF TakenInTick(cticks) = {} THEN 0 ELSE 1)
C8_Continuous == []C8_ContinuousState /\ [][C8_ContinuousStep]_vars
C8_Witness ==
    /\ ~single_image /\ state = Render(0) /\ exits = 0
    /\ Len(saved) >= 2 /\ cpc = "idle"
    /\ \A i \in 1..Len(saved) : saved[i].ok

\* C9: a failed map is fatal. Once the callback got an error the render world
\* is stopped, the failed map cycle sent no frame (every earlier one did), and
\* from then on no copy, map or send happens.
C9_MapFailState ==
    fail = "map" =>
        /\ ppc = "panicked"
        /\ pushes = maps - 1
        /\ ~mapped
C9_MapFailStep ==
    ppc = "panicked" =>
        /\ ppc' = "panicked"
        /\ copies' = copies /\ maps' = maps /\ pushes' = pushes /\ ptick' = ptick
        /\ Len(channel') <= Len(channel)
C9_MapFailureFatal == []C9_MapFailState /\ [][C9_MapFailStep]_vars
C9_Witness ==
    /\ fail = "map" /\ ppc = "panicked"
    /\ maps >= 2 /\ ptick < MaxTicks
    /\ state.tag = "Render"

\* C10: a failed save is fatal. A failed save is the last image ever handed to
\* img.save, save_frame is stopped from then on, and nothing is saved, numbered
\* or signalled afterwards.
C10_SaveFailState ==
    \A i \in 1..Len(saved) :
        ~saved[i].ok => (i = Len(saved) /\ cpc = "panicked")
C10_SaveFailStep ==
    cpc = "panicked" =>
        /\ cpc' = "panicked"
        /\ saved' = saved /\ file_number' = file_number /\ exits' = exits
        /\ taken' = taken
C10_SaveFailureFatal == []C10_SaveFailState /\ [][C10_SaveFailStep]_vars
C10_Witness ==
    /\ cpc = "panicked" /\ Len(saved) >= 2
    /\ ~saved[Len(saved)].ok
    /\ channel # <<>> /\ receiver_alive

\* C11: destination identifiers are gap-free. The k-th image handed to img.save
\* carries index k - 1, file_number is the number of images handed over so
\* far, and a step that hands over no image leaves file_number unchanged.
C11_IndexState ==
    /\ file_number = Len(saved)
    /\ \A i \in 1..Len(saved) : saved[i].file = i - 1
C11_IndexStep ==
    IF saved' = saved
      THEN file_number' = file_number
      ELSE file_number' = file_number + 1
ConsumerStep == try_recv_latest \/ save_frame_finish \/ try_recv_discard
C12_TickEnabled == InTick => ENABLED ConsumerStep
C12_LoopExit ==
    (channel = <<>> /\ (cpc' # cpc \/ taken' # taken)) =>
        /\ cpc = "drain_latest" => (cpc' = "check" /\ taken' = taken)
        /\ cpc = "drain_discard" => (cpc' = "idle" /\ taken' = taken)
C12_ConsumerNeverBlocks == []C12_TickEnabled /\ [][C12_LoopExit]_vars
C12_Witness ==
    /\ cpc = "check" /\ state = Render(0) /\ tick_start = <<>> /\ is_empty(image_data)
    /\ ppc = "recv" /\ rdv = <<>> /\ cb_pending /\ pushes = 0

\* C13: the capture state changes only from BuildScene to Render(pre_roll) at
\* setup and from Render(n), n >= 1, to Render(n - 1) at the end of a pre-roll
\* invocation of save_frame; the counter stays within 0..pre_roll, so an
\* invocation in BuildScene or Render(0) changes nothing and BuildScene is
\* never entered again.
C13_StateRange ==
    \/ state = BuildScene
    \/ state.tag = "Render" /\ state.n \in 0..pre_roll
C13_StateStep ==
    state' # state =>
        \/ /\ state = BuildScene
           /\ state' = Render(pre_roll)
        \/ /\ state.tag = "Render" /\ state.n >= 1
           /\ state' = Render(state.n - 1)
           /\ cpc = "drain_discard" /\ cpc' = "idle"
C13_StateTransitions == []C13_StateRange /\ [][C13_StateStep]_vars
C13_Witness ==
    /\ built_tick /\ pre_roll = 2 /\ state = Render(0)
    /\ cticks = pre_roll + 1 /\ cpc = "idle"

\* C14: map/unmap discipline. The staging buffer is mapped only inside the
\* map..unmap stretch of a render-world frame (or in a render world stopped by
\* a panic); a send, accepted or refused because the receiver is gone, is
\* followed by the unmap, and no copy command is submitted while the buffer is
\* mapped.
C14_MappedState ==
    /\ mapped => (ppc \in {"poll", "recv", "push", "unmap"} \/ fail # "none")
    /\ ppc \in {"idle", "render_done"} => ~mapped
C14_MappedStep ==
    /\ copies' # copies => (~mapped /\ ~mapped')
    /\ pushes' # pushes => (mapped' /\ ppc' = "unmap")
    /\ (ppc = "unmap" /\ ppc' # "unmap") => (ppc' = "idle" /\ ~mapped')
C14_MapUnmap == []C14_MappedState /\ [][C14_MappedStep]_vars
C14_Witness ==
    /\ ~receiver_alive /\ ~push_since_drain
    /\ pushes >= 2 /\ Len(taken) = 1
    /\ ppc = "idle" /\ ~mapped /\ fail = "none"

\* C15: every frame sent has length padded-row-bytes x height, with the row
\* pitch of the copy command.
C15_FrameLength ==
    lpc \in {"sent", "stripped"} => Len(lframe) = copy_padded_bytes_per_row(lw) * lh

\* C16: the row pitch of the copy command, the row pitch the staging buffer is
\* sized with and the row pitch save_frame strips with are equal.
C16_SameLayout ==
    lpc = "stripped" =>
        /\ copy_padded_bytes_per_row(lw) = buffer_padded_bytes_per_row(lw)
        /\ buffer_padded_bytes_per_row(lw) = aligned_row_bytes(lw)

\* C17: in Render(0) an invocation of save_frame that took no frame out of the
\* channel changes nothing (no save, no AppExit, same state and file_number),
\* and one that took at least one frame out hands exactly the newest of them
\* to img.save: an image is saved iff a frame was there at the drain.
MaxOf(S) == CHOOSE x \in S : \A y \in S : y <= x
C17_SavedState ==
    /\ cpc = "check" => state = Render(0)
    /\ \A i \in 1..Len(saved) : saved[i].pidx \in TakenInTick(saved[i].tick)
C17_FinishStep ==
    (cpc = "check" /\ cpc' # "check") =>
        IF TakenInTick(cticks) = {}
          THEN /\ saved' = saved /\ exits' = exits
               /\ state' = state /\ file_number' = file_number
               /\ cpc' = "idle"
          ELSE /\ Len(saved') = Len(saved) + 1
               /\ saved'[Len(saved')].pidx = MaxOf(TakenInTick(cticks))
               /\ saved'[Len(saved')].tick = cticks
C17_SaveIffFrame == []C17_SavedState /\ [][C17_FinishStep]_vars
C17_Witness ==
    /\ pre_roll = 0 /\ state = Render(0) /\ cpc = "idle"
    /\ cticks = 2 /\ Len(saved) = 1 /\ saved[1].ok /\ exits = 0

\* C18: map protocol ordering. A render-world frame goes through map request,
\* device poll, wait on the rendezvous, read-and-send, unmap in that order; the
\* mapped range is read only after the callback has run and its value has been
\* received; each map request starts with a fresh empty rendezvous, which gets
\* one value from the callback and is empty again before the send.
PpcOrder ==
    {<<"idle", "render_done">>, <<"render_done", "idle">>, <<"render_done", "poll">>,
     <<"poll", "recv">>, <<"recv", "push">>, <<"push", "unmap">>, <<"unmap", "idle">>,
     <<"poll", "panicked">>, <<"recv", "panicked">>, <<"push", "panicked">>}
C18_OrderState ==
    /\ Len(rdv) <= 1
    /\ cb_pending => rdv = <<>>
    /\ ppc \in {"push", "unmap"} => (~cb_pending /\ rdv = <<>> /\ mapped)
    /\ ppc \in {"idle", "render_done"} => (~cb_pending /\ rdv = <<>>)
C18_OrderStep ==
    /\ ppc' # ppc => <<ppc, ppc'>> \in PpcOrder
    /\ maps' # maps => (ppc = "render_done" /\ rdv' = <<>> /\ cb_pending')
    /\ Len(rdv') > Len(rdv) => (cb_pending /\ ~cb_pending' /\ ppc \in {"poll", "recv"})
    /\ pushes' # pushes => (ppc = "push" /\ mapped /\ ~cb_pending)
C18_MapProtocol == []C18_OrderState /\ [][C18_OrderStep]_vars
C18_Witness ==
    /\ ppc = "idle" /\ fail = "none"
    /\ maps >= 2 /\ pushes = maps /\ copies = maps

\* the render world's part of a frame after ImageCopyDriver::run, with the
\* device's completion of the map
RenderStep ==
    \/ receive_map_async
    \/ map_callback
    \/ device_poll
    \/ rendezvous_recv
    \/ send_frame
    \/ buffer_unmap

\* the program as main() configures it (single_image set), where the render
\* world keeps running and the device completes what it was asked; the main
\* world is free to run, to stop or never to run
InitFair == Init /\ single_image
SpecFair == InitFair /\ [][Next]_vars /\ WF_vars(RenderStep)

\* C19: the rendezvous cannot deadlock. The callback's successful send is
\* possible whether it runs before or after the render world started waiting
\* in r.recv(), and a map cycle that was started ends with the frame sent and
\* the buffer unmapped, unless the device reported a failure, whatever the
\* consumer does.
C19_CallbackCanSend ==
    (cb_pending /\ ppc \in {"poll", "recv"}) => ENABLED (map_callback /\ mapped')
C19_CycleEnds ==
    (ppc = "poll") ~> ((ppc = "idle" /\ pushes = maps /\ ~mapped) \/ fail # "none")
C19_NoDeadlock == []C19_CallbackCanSend /\ C19_CycleEnds
C19_Witness ==
    /\ ppc = "idle" /\ fail = "none" /\ pushes = maps /\ maps >= 2
    /\ cticks = 0 /\ Len(channel) = maps

\* C20: strip for unaligned widths. When the aligned row is longer than the
\* image row, the image written by save_frame has height x row_bytes bytes and
\* its row i is the first row_bytes bytes of the i-th aligned_row_bytes chunk
\* of the frame, for the frames the staging buffer yields (which are longer
\* than aligned_row_bytes x height).
C20_StripUnaligned ==
    (lpc = "stripped" /\ aligned_row_bytes(lw) > row_bytes(lw)) =>
        /\ Len(lout) = lh * row_bytes(lw)
        /\ \A i \in 0..(lh - 1) :
              SubSeq(lout, i * row_bytes(lw) + 1, (i + 1) * row_bytes(lw))
                = SubSeq(lframe, i * aligned_row_bytes(lw) + 1,
                         i * aligned_row_bytes(lw) + row_bytes(lw))
C20_Witness ==
    /\ lpc = "stripped" /\ lw = 3 /\ lh = 2
    /\ Len(lout) = 24 /\ Len(lframe) > 2 * aligned_row_bytes(3)
    /\ lout = tight_image(3, 2)

\* C21: copy/send pairing under a concurrently written enabled flag. A frame
\* is sent in a render-world frame only if a copy command was submitted
\* earlier in that frame, and every copy submitted is followed by a map and a
\* send in that frame: a map cycle is only ever running with as many copies as
\* map requests, and between frames there are as many sends as copies.
C21_CopyPushPairing ==
    /\ ppc \in {"poll", "recv", "push", "unmap"} => copies = maps
    /\ ppc = "idle" => copies = pushes

\* C22: the staging buffer is large enough for the copy. For every width and
\* height the buffer allocated by ImageCopier::new has at least bytes_per_row x
\* height bytes, the copy command is accepted, and after it every byte of the
\* image is in the buffer.
C22_BufferLargeEnough ==
    /\ lpc # "off" => Len(lbuf) >= copy_padded_bytes_per_row(lw) * lh
    /\ lpc = "new" => ENABLED layout_copy
    /\ lpc = "copied" =>
          \A r \in 0..(lh - 1) :
              /\ lbuf[r * copy_padded_bytes_per_row(lw) + 1] = r * row_bytes(lw) + 1
              /\ lbuf[r * copy_padded_bytes_per_row(lw) + row_bytes(lw)] = (r + 1) * row_bytes(lw)
C22_Witness ==
    /\ lpc = "copied" /\ lw = 65 /\ lh = 2
    /\ Len(lbuf) = 2048 /\ copy_padded_bytes_per_row(lw) = 512
    /\ lbuf[512 + 260] = 520
====
